---- MODULE Spec2Model ----
(***************************************************************************)
(* napalm_install_config: the Ansible module's main() as a state machine.  *)
(*                                                                         *)
(* Python values are TLA+ strings.  The strings "None", "False" and "True" *)
(* stand for the Python objects None, False and True, "<absent>" for a key *)
(* a dict does not hold; every other string is the Python str of the same  *)
(* text ("" is the empty str).                                             *)
(*                                                                         *)
(* module.fail_json ends the process through SystemExit, which the         *)
(* `except Exception` clauses of main() do not catch: a failure is the     *)
(* last thing a run does.                                                  *)
(***************************************************************************)
EXTENDS Naturals, Sequences, FiniteSets

VARIABLES
    napalm_found,   \* module-level flag set by the import of napalm
    check_mode,     \* module.check_mode
    explicit,       \* module.params as the caller supplied them
    provider_in,    \* module.params["provider"] as the caller supplied it
    provider,       \* the local dict `provider`
    params,         \* module.params
    message,        \* local `message`
    changed,        \* local `changed`
    diff,           \* local `diff`
    device,         \* the remote device behind the napalm driver
    calls,          \* the device operations invoked so far, in order
    files,          \* the files save_to_file has written
    pc,             \* position of main()
    result          \* what the module reported when it ended

vars == <<napalm_found, check_mode, explicit, provider_in, provider, params,
          message, changed, diff, device, calls, files, pc, result>>

----------------------------------------------------------------------------
(* Bounds of the model *)

\* at most this many of hostname, username, dev_os are not given a usable value
MaxBadIdentity == 1
\* at most this many keys, besides commit_comment, in the provider bundle
MaxProviderKeys == 1

----------------------------------------------------------------------------
(* Python values *)

None == "None"
False == "False"
True == "True"
Absent == "<absent>"

\* truth value of a Python object in `if x`, `x or y`, `not x`
Truthy(v) == v \notin {None, False, ""}

\* a or b
PyOr(a, b) == IF Truthy(a) THEN a ELSE b

\* d.get(k, None)
DictGet(d, k) == IF d[k] = Absent THEN None ELSE d[k]

\* callable(v): the parameters come from JSON/YAML (str, bool, None), none of
\* which can be called
PyCallable(v) == v \notin {None, False, True} /\ v \notin STRING

----------------------------------------------------------------------------
(* Inputs *)

ProviderKeys == {"hostname", "host", "username", "dev_os", "commit_changes",
                 "config", "commit_comment"}

ParamKeys == {"hostname", "host", "username", "dev_os", "config_file", "config",
              "commit_changes", "replace_config", "diff_file", "get_diffs",
              "archive_file", "candidate_file", "commit_comment"}

ConfigTexts == {"cfgA", "cfgB"}

\* what the file named by config_file holds
ConfigFileText == "cfgB"

\* the drivers napalm's get_network_driver knows
KnownDrivers == {"ios"}

GoodIdentity == [hostname |-> "h1", username |-> "u1", dev_os |-> "ios"]

IdentityValues == [hostname : {None, "h1"},
                   username : {None, "", "u1"},
                   dev_os : {None, "ios", "bogus"}]

Identities ==
    {i \in IdentityValues :
        Cardinality({k \in DOMAIN i : i[k] # GoodIdentity[k]}) <= MaxBadIdentity}

ProviderValues == [hostname : {Absent, "h2", ""},
                   host : {Absent, "h2"},
                   username : {Absent, "u2"},
                   dev_os : {Absent, "ios"},
                   commit_changes : {Absent, True},
                   config : {Absent, "cfgB"},
                   commit_comment : {Absent, None, "c1"}]

Providers ==
    {p \in ProviderValues :
        Cardinality({k \in ProviderKeys \ {"commit_comment"} : p[k] # Absent})
            <= MaxProviderKeys}

\* argument_spec: the declared parameters with their types and defaults; it
\* declares no commit_comment, and "host" is only an alias of hostname
ExplicitParams ==
    {[hostname |-> i.hostname, host |-> Absent, username |-> i.username,
      dev_os |-> i.dev_os, config_file |-> w.config_file, config |-> w.config,
      commit_changes |-> w.commit_changes, replace_config |-> w.replace_config,
      diff_file |-> w.diff_file, get_diffs |-> w.get_diffs,
      archive_file |-> w.archive_file, candidate_file |-> w.candidate_file,
      commit_comment |-> Absent] :
        i \in Identities,
        w \in [config_file : {None, "f1"},
               config : {None} \cup ConfigTexts,
               commit_changes : {False, True},
               replace_config : {False, True},
               diff_file : {None, "p_diff"},
               get_diffs : {False, True},
               archive_file : {None, "p_arch"},
               candidate_file : {None, "p_cand"}]}

Paths == {"p_diff", "p_arch", "p_cand"}

\* the running configuration of the device before the run
RunningAtStart == "cfgA"

NoResult == [kind |-> "none", msg |-> "", changed |-> None, diff |-> Absent]

----------------------------------------------------------------------------
(* The state after AnsibleModule(...) has parsed the arguments *)

Init ==
    /\ napalm_found \in BOOLEAN
    /\ check_mode \in BOOLEAN
    /\ explicit \in ExplicitParams
    /\ provider_in \in Providers
    /\ provider = provider_in
    /\ params = explicit
    /\ message = Absent
    /\ changed = Absent
    /\ diff = Absent
    /\ device = [session |-> "none", running |-> RunningAtStart, candidate |-> None]
    /\ calls = <<>>
    /\ files = [p \in Paths |-> Absent]
    /\ pc = "start"
    /\ result = NoResult

----------------------------------------------------------------------------
(* How a run ends *)

\* module.fail_json(msg=...): report the failure and exit
FailJson(tag) ==
    /\ result' = [kind |-> "failed", msg |-> tag, changed |-> None, diff |-> Absent]
    /\ pc' = "done"

\* an exception nothing catches: the process dies with a traceback
Uncaught(exc) ==
    /\ result' = [kind |-> "crashed", msg |-> exc, changed |-> None, diff |-> Absent]
    /\ pc' = "done"

----------------------------------------------------------------------------
(* main(), up to the connection *)

NapalmCheck ==
    /\ pc = "start"
    /\ IF ~napalm_found
         THEN FailJson("the python module napalm is required")
         ELSE pc' = "resolve" /\ UNCHANGED result
    /\ UNCHANGED <<napalm_found, check_mode, explicit, provider_in, provider,
                   params, message, changed, diff, device, calls, files>>

\* provider["hostname"] = provider.get("hostname", None) or provider.get("host", None)
ProviderHostname(p) == PyOr(DictGet(p, "hostname"), DictGet(p, "host"))

\* the loop body without its `is not False` test
MergeParamOverridingFalse(explicitValue, pvalue) == PyOr(explicitValue, pvalue)

\* the loop body preferring the provider: `pvalue or module.params.get(param)`
MergeParamProviderFirst(explicitValue, pvalue) == PyOr(pvalue, explicitValue)

\* module.params[param] after the loop body has run for one provider item
MergeParam(explicitValue, pvalue) ==
    IF explicitValue # False THEN PyOr(explicitValue, pvalue) ELSE explicitValue

\* module.params after "allow local params to override provider"
MergeProvider(mp, p) ==
    [k \in ParamKeys |->
        IF k \in ProviderKeys /\ p[k] # Absent
          THEN MergeParam(DictGet(mp, k), p[k])
          ELSE mp[k]]

ResolveProvider ==
    /\ pc = "resolve"
    /\ LET p == [provider EXCEPT !["hostname"] = ProviderHostname(provider)]
       IN /\ provider' = p
          /\ params' = MergeProvider(params, p)
    /\ pc' = "read"
    /\ UNCHANGED <<napalm_found, check_mode, explicit, provider_in, message,
                   changed, diff, device, calls, files, result>>

\* the reads with the comment fetched by module.params.get("commit_comment")
ReadParamsWithGet ==
    /\ pc = "read"
    /\ message' = DictGet(params, "commit_comment")
    /\ pc' = "argcheck"
    /\ UNCHANGED <<napalm_found, check_mode, explicit, provider_in, provider,
                   params, changed, diff, device, calls, files, result>>

\* hostname = module.params["hostname"] ... message = module.params["commit_comment"]
ReadParams ==
    /\ pc = "read"
    /\ IF params["commit_comment"] = Absent
         THEN Uncaught("KeyError: commit_comment") /\ UNCHANGED message
         ELSE /\ message' = params["commit_comment"]
              /\ pc' = "argcheck"
              /\ UNCHANGED result
    /\ UNCHANGED <<napalm_found, check_mode, explicit, provider_in, provider,
                   params, changed, diff, device, calls, files>>

\* argument_check: the first of hostname, username, dev_os that is None
MissingArgument(mp) ==
    IF mp["hostname"] = None THEN "hostname"
    ELSE IF mp["username"] = None THEN "username"
    ELSE IF mp["dev_os"] = None THEN "dev_os"
    ELSE None

ArgumentCheck ==
    /\ pc = "argcheck"
    /\ IF MissingArgument(params) # None
         THEN FailJson(MissingArgument(params) \o " is required")
         ELSE pc' = "driver" /\ UNCHANGED result
    /\ UNCHANGED <<napalm_found, check_mode, explicit, provider_in, provider,
                   params, message, changed, diff, device, calls, files>>

\* network_driver = get_network_driver(dev_os)
GetDriver ==
    /\ pc = "driver"
    /\ calls' = Append(calls, "get_network_driver")
    /\ IF params["dev_os"] \notin KnownDrivers
         THEN FailJson("Failed to import napalm driver: ")
         ELSE pc' = "open" /\ UNCHANGED result
    /\ UNCHANGED <<napalm_found, check_mode, explicit, provider_in, provider,
                   params, message, changed, diff, device, files>>

\* the connection block whose except clause reports nothing and goes on
OpenContinuingAfterFailure ==
    /\ pc = "open"
    /\ \E outcome \in {"ok", "driver_raises", "open_raises"} :
         /\ calls' = IF outcome = "driver_raises"
                       THEN Append(calls, "network_driver")
                       ELSE calls \o <<"network_driver", "open">>
         /\ device' = IF outcome = "ok" THEN [device EXCEPT !.session = "open"]
                                         ELSE device
         /\ pc' = "archive"
         /\ UNCHANGED result
    /\ UNCHANGED <<napalm_found, check_mode, explicit, provider_in, provider,
                   params, message, changed, diff, files>>

\* device = network_driver(...); device.open()
Open ==
    /\ pc = "open"
    /\ \E outcome \in {"ok", "driver_raises", "open_raises"} :
         CASE outcome = "driver_raises" ->
                /\ calls' = Append(calls, "network_driver")
                /\ FailJson("cannot connect to device: ")
                /\ UNCHANGED device
           [] outcome = "open_raises" ->
                /\ calls' = calls \o <<"network_driver", "open">>
                /\ FailJson("cannot connect to device: ")
                /\ UNCHANGED device
           [] outcome = "ok" ->
                /\ calls' = calls \o <<"network_driver", "open">>
                /\ device' = [device EXCEPT !.session = "open"]
                /\ pc' = "archive"
                /\ UNCHANGED result
    /\ UNCHANGED <<napalm_found, check_mode, explicit, provider_in, provider,
                   params, message, changed, diff, files>>

----------------------------------------------------------------------------
(* main(), the installation workflow *)

\* save_to_file(content, filename)
save_to_file(content, filename) == files' = [files EXCEPT ![filename] = content]

\* running_config = device.get_config(retrieve="running")["running"]
\* save_to_file(running_config, archive_file)
Archive ==
    /\ pc = "archive"
    /\ IF params["archive_file"] # None
         THEN \E outcome \in {"ok", "get_raises", "save_raises"} :
                /\ calls' = Append(calls, "get_config_running")
                /\ CASE outcome = "get_raises" ->
                          /\ FailJson("cannot retrieve running config:")
                          /\ UNCHANGED files
                     [] outcome = "save_raises" ->
                          /\ FailJson("cannot retrieve running config:")
                          /\ UNCHANGED files
                     [] outcome = "ok" ->
                          /\ save_to_file(device.running, params["archive_file"])
                          /\ pc' = "load"
                          /\ UNCHANGED result
         ELSE pc' = "load" /\ UNCHANGED <<calls, files, result>>
    /\ UNCHANGED <<napalm_found, check_mode, explicit, provider_in, provider,
                   params, message, changed, diff, device>>

\* the branch the load step takes
LoadOperation(replace_config, config_file, config) ==
    IF Truthy(replace_config) /\ Truthy(config_file) THEN "load_replace_candidate"
    ELSE IF Truthy(replace_config) /\ Truthy(config) THEN "load_replace_candidate"
    ELSE IF ~Truthy(replace_config) /\ Truthy(config_file) THEN "load_merge_candidate"
    ELSE IF ~Truthy(replace_config) /\ Truthy(config) THEN "load_merge_candidate"
    ELSE None

\* the branches in the other order: the inline text wins over the file
LoadSourceInlineFirst(config_file, config) ==
    IF Truthy(config) THEN config ELSE ConfigFileText

\* the text the load step hands to the device: the file wins over the inline text
LoadSource(config_file, config) ==
    IF Truthy(config_file) THEN ConfigFileText ELSE config

\* the load step without its else branch: with no source nothing is loaded
\* and the run goes on
LoadSkippingMissingSource ==
    /\ pc = "load"
    /\ LET op == LoadOperation(params["replace_config"], params["config_file"],
                               params["config"])
       IN IF op = None
            THEN /\ pc' = "diff"
                 /\ UNCHANGED <<calls, device, result>>
            ELSE /\ calls' = Append(calls, op)
                 /\ \E raises \in BOOLEAN :
                      IF raises
                        THEN FailJson("cannot load config: ") /\ UNCHANGED device
                        ELSE /\ device' = [device EXCEPT !.candidate =
                                    LoadSource(params["config_file"], params["config"])]
                             /\ pc' = "diff"
                             /\ UNCHANGED result
    /\ UNCHANGED <<napalm_found, check_mode, explicit, provider_in, provider,
                   params, message, changed, diff, files>>

Load ==
    /\ pc = "load"
    /\ LET op == LoadOperation(params["replace_config"], params["config_file"],
                               params["config"])
       IN IF op = None
            THEN /\ FailJson("You have to specify either config or config_file")
                 /\ UNCHANGED <<calls, device>>
            ELSE /\ calls' = Append(calls, op)
                 /\ \E raises \in BOOLEAN :
                      IF raises
                        THEN FailJson("cannot load config: ") /\ UNCHANGED device
                        ELSE /\ device' = [device EXCEPT !.candidate =
                                    LoadSource(params["config_file"], params["config"])]
                             /\ pc' = "diff"
                             /\ UNCHANGED result
    /\ UNCHANGED <<napalm_found, check_mode, explicit, provider_in, provider,
                   params, message, changed, diff, files>>

\* device.compare_config(): the text of the difference, empty when there is none
compare_config(d) == IF d.candidate = d.running THEN "" ELSE "+" \o d.candidate

PyBool(b) == IF b THEN True ELSE False

\* the comparison written as len(diff) >= 0
DiffChangedAlways(d) == PyBool(Len(d) >= 0)

\* changed = len(diff) > 0
DiffChanged(d) == PyBool(Len(d) > 0)

\* the test without its `and get_diffs`
WritesDiffFileUnguarded(diff_file, get_diffs) == diff_file # None

\* if diff_file is not None and get_diffs
WritesDiffFile(diff_file, get_diffs) == diff_file # None /\ Truthy(get_diffs)

Diff ==
    /\ pc = "diff"
    /\ \E outcome \in {"ok", "compare_raises", "save_raises"} :
         LET d == IF Truthy(params["get_diffs"]) THEN compare_config(device) ELSE None
             c == IF Truthy(params["get_diffs"]) THEN DiffChanged(d) ELSE True
             saves == WritesDiffFile(params["diff_file"], params["get_diffs"])
         IN /\ outcome = "compare_raises" => Truthy(params["get_diffs"])
            /\ outcome = "save_raises" => saves
            /\ calls' = IF Truthy(params["get_diffs"])
                          THEN Append(calls, "compare_config") ELSE calls
            /\ CASE outcome = "compare_raises" ->
                      /\ FailJson("cannot diff config: ")
                      /\ UNCHANGED <<changed, diff, files>>
                 [] outcome = "save_raises" ->
                      /\ changed' = c
                      /\ diff' = d
                      /\ FailJson("cannot diff config: ")
                      /\ UNCHANGED files
                 [] outcome = "ok" ->
                      /\ changed' = c
                      /\ diff' = d
                      /\ IF saves THEN save_to_file(d, params["diff_file"])
                                  ELSE UNCHANGED files
                      /\ pc' = "candidate"
                      /\ UNCHANGED result
    /\ UNCHANGED <<napalm_found, check_mode, explicit, provider_in, provider,
                   params, message, device>>

\* running_config = device.get_config(retrieve="candidate")["candidate"]
\* save_to_file(running_config, candidate_file)
CandidateArchive ==
    /\ pc = "candidate"
    /\ IF params["candidate_file"] # None
         THEN \E outcome \in {"ok", "get_raises", "save_raises"} :
                /\ calls' = Append(calls, "get_config_candidate")
                /\ CASE outcome = "get_raises" ->
                          /\ FailJson("cannot retrieve running config:")
                          /\ UNCHANGED files
                     [] outcome = "save_raises" ->
                          /\ FailJson("cannot retrieve running config:")
                          /\ UNCHANGED files
                     [] outcome = "ok" ->
                          /\ save_to_file(device.candidate, params["candidate_file"])
                          /\ pc' = "install"
                          /\ UNCHANGED result
         ELSE pc' = "install" /\ UNCHANGED <<calls, files, result>>
    /\ UNCHANGED <<napalm_found, check_mode, explicit, provider_in, provider,
                   params, message, changed, diff, device>>

\* the block as `if not commit_changes: discard / elif changed: commit_config()`,
\* the check-mode test lost
InstallDecisionIgnoringCheckMode(checkMode, commit_changes, isChanged, msg) ==
    IF ~Truthy(commit_changes) THEN "discard"
    ELSE IF Truthy(isChanged) THEN "commit"
    ELSE "none"

\* the block discarding whenever it does not commit
InstallDecisionDiscardingUnchanged(checkMode, commit_changes, isChanged, msg) ==
    IF checkMode \/ ~Truthy(commit_changes) THEN "discard"
    ELSE IF Truthy(isChanged)
           THEN IF PyCallable(msg) THEN "commit" ELSE "TypeError"
           ELSE "discard"

\* what the commit-or-discard block does: "discard", "commit", "none" (nothing
\* to do), or "TypeError" when message("commit_comment") calls a non-callable
InstallDecision(checkMode, commit_changes, isChanged, msg) ==
    IF checkMode \/ ~Truthy(commit_changes) THEN "discard"
    ELSE IF Truthy(isChanged)
           THEN IF PyCallable(msg) THEN "commit" ELSE "TypeError"
           ELSE "none"

Install ==
    /\ pc = "install"
    /\ LET decision == InstallDecision(check_mode, params["commit_changes"],
                                       changed, message)
       IN CASE decision = "discard" ->
                 /\ calls' = Append(calls, "discard_config")
                 /\ \E raises \in BOOLEAN :
                      IF raises
                        THEN FailJson("cannot install config: ") /\ UNCHANGED device
                        ELSE /\ device' = [device EXCEPT !.candidate = None]
                             /\ pc' = "close"
                             /\ UNCHANGED result
            [] decision = "commit" ->
                 /\ calls' = Append(calls, "commit_config")
                 /\ \E raises \in BOOLEAN :
                      IF raises
                        THEN FailJson("cannot install config: ") /\ UNCHANGED device
                        ELSE /\ device' = [device EXCEPT !.running = device.candidate,
                                                         !.candidate = None]
                             /\ pc' = "close"
                             /\ UNCHANGED result
            [] decision = "TypeError" ->
                 /\ FailJson("cannot install config: ")
                 /\ UNCHANGED <<calls, device>>
            [] decision = "none" ->
                 /\ pc' = "close"
                 /\ UNCHANGED <<calls, device, result>>
    /\ UNCHANGED <<napalm_found, check_mode, explicit, provider_in, provider,
                   params, message, changed, diff, files>>

\* device.close()
Close ==
    /\ pc = "close"
    /\ calls' = Append(calls, "close")
    /\ \E raises \in BOOLEAN :
         IF raises
           THEN FailJson("cannot close device connection: ") /\ UNCHANGED device
           ELSE /\ device' = [device EXCEPT !.session = "closed"]
                /\ pc' = "exit"
                /\ UNCHANGED result
    /\ UNCHANGED <<napalm_found, check_mode, explicit, provider_in, provider,
                   params, message, changed, diff, files>>

\* module.exit_json(changed=changed, diff={"prepared": diff}, msg=diff)
ExitJson ==
    /\ pc = "exit"
    /\ result' = [kind |-> "success", msg |-> diff, changed |-> changed, diff |-> diff]
    /\ pc' = "done"
    /\ UNCHANGED <<napalm_found, check_mode, explicit, provider_in, provider,
                   params, message, changed, diff, device, calls, files>>

Next ==
    \/ NapalmCheck
    \/ ResolveProvider
    \/ ReadParams
    \/ ArgumentCheck
    \/ GetDriver
    \/ Open
    \/ Archive
    \/ Load
    \/ Diff
    \/ CandidateArchive
    \/ Install
    \/ Close
    \/ ExitJson

Spec == Init /\ [][Next]_vars

----------------------------------------------------------------------------
(* Properties *)

Invoked(op) == \E i \in 1..Len(calls) : calls[i] = op

Count(op) == Cardinality({i \in 1..Len(calls) : calls[i] = op})

DryRun == check_mode \/ explicit["commit_changes"] = False

\* C1: once the session has been opened, it has been closed exactly once
\* by the time the run ends, whether the run succeeds or fails at a later step.
C1_ClosedOnEveryExit ==
    (pc = "done" /\ device.session # "none") => Count("close") = 1

\* C2: when commit_changes is false or check mode is on, commit_config is
\* never invoked and the running configuration of the device stays what it
\* was at the start.
C2_DryRunNeverCommits ==
    DryRun => ~Invoked("commit_config") /\ device.running = RunningAtStart

\* a dry run in check mode that asked for a commit and saw a change, ended
\* in success with the candidate discarded
C2_Witness ==
    /\ pc = "done" /\ result.kind = "success"
    /\ check_mode /\ explicit["commit_changes"] = True
    /\ changed = True
    /\ Invoked("discard_config")
    /\ device.candidate = None

\* C3: with commit_changes true, check mode off, get_diffs true, a loaded
\* candidate and a non-empty diff from the device, the run commits the
\* candidate and ends in success with changed = true and the device's diff:
\* it ends otherwise only where a device call or a file write has raised.
C3_CommitsNonEmptyDiff ==
    (/\ pc = "done"
     /\ ~check_mode /\ explicit["commit_changes"] = True
     /\ explicit["get_diffs"] = True
     /\ diff \notin {Absent, None, ""})
    =>
    \/ /\ result.kind = "success"
       /\ Invoked("commit_config")
       /\ result.changed = True
       /\ result.diff = diff
    \/ /\ result.kind = "failed"
       /\ result.msg = "cannot install config: " => Invoked("commit_config")

\* C4: when commit_changes is false or check mode is on, a candidate that
\* was loaded onto the device has had discard_config invoked on it by the
\* time the run ends, also when a step after the load fails.
C4_DryRunAlwaysDiscards ==
    (pc = "done" /\ DryRun /\ device.candidate # None) => Invoked("discard_config")

\* C5: with neither config nor config_file supplied the run never succeeds
\* and touches nothing: no driver instantiated, no session opened, no device
\* call made, no file written; the failure it reports is the validation error.
C5_MissingSourceFailsBeforeDevice ==
    (/\ explicit["config"] = None /\ explicit["config_file"] = None
     /\ provider_in["config"] = Absent)
    =>
    /\ \A i \in 1..Len(calls) : calls[i] = "get_network_driver"
    /\ device.session = "none"
    /\ \A f \in Paths : files[f] = Absent
    /\ result.kind # "success"
    /\ (napalm_found /\ result.kind = "failed" /\ MissingArgument(params) = None) =>
          result.msg \in {"You have to specify either config or config_file",
                          "Failed to import napalm driver: "}

\* C6: the driver is resolved and a connection attempted only with
\* hostname, username and dev_os all non-empty; a run in which one of them
\* is unset or empty after the merge never succeeds, and the failure it
\* reports is "<field> is required".
C6_IdentityRequired ==
    LET unset == {k \in {"hostname", "username", "dev_os"} : ~Truthy(params[k])}
    IN  /\ calls # <<>> => unset = {}
        /\ (pc = "done" /\ napalm_found /\ unset # {}) =>
              /\ result.kind # "success"
              /\ result.kind = "failed" =>
                    \E k \in unset : result.msg = k \o " is required"

C8_EmptyDiffNoCommit ==
    (explicit["get_diffs"] = True /\ diff = "") =>
        /\ changed = False
        /\ ~Invoked("commit_config")
        /\ result.kind = "success" => result.changed = False

\* a successful run that asked for a commit and got an empty diff
C8_Witness ==
    /\ pc = "done" /\ result.kind = "success"
    /\ explicit["get_diffs"] = True /\ diff = ""
    /\ explicit["commit_changes"] = True /\ ~check_mode
    /\ result.changed = False

\* C9: a successful result says changed = true only if the run changed the
\* configuration on the device, i.e. a commit took place.
C9_ChangedMeansCommitted ==
    (result.kind = "success" /\ result.changed = True) =>
        Invoked("commit_config") /\ device.running # RunningAtStart

\* C10: for every key of the provider bundle, the resolved parameter is
\* False when the explicit value is False, the explicit value when that is
\* truthy, and the bundle's value otherwise; the bundle's hostname is its
\* "hostname" entry, or else its "host" entry.
C10_ProviderResolution ==
    (napalm_found /\ pc \notin {"start", "resolve"}) =>
        /\ \A k \in ProviderKeys :
             provider[k] # Absent =>
                LET e == DictGet(explicit, k)
                IN  /\ e = False => params[k] = False
                    /\ Truthy(e) => params[k] = e
                    /\ (~Truthy(e) /\ e # False) => params[k] = provider[k]
        /\ provider["hostname"] =
              IF Truthy(DictGet(provider_in, "hostname"))
                THEN provider_in["hostname"]
                ELSE DictGet(provider_in, "host")

\* an explicit False kept against the bundle's True, next to an absent
\* parameter taken from the bundle
C10_Witness ==
    /\ pc = "read"
    /\ explicit["commit_changes"] = False /\ provider["commit_changes"] = True
    /\ params["commit_changes"] = False
    /\ explicit["commit_comment"] = Absent /\ provider["commit_comment"] = "c1"
    /\ params["commit_comment"] = "c1"

Resolved == napalm_found /\ pc \notin {"start", "resolve"}

DeviceCalls == {"get_config_running", "load_replace_candidate",
                "load_merge_candidate", "compare_config", "get_config_candidate",
                "discard_config", "commit_config", "close"}

NoFileWritten == \A f \in Paths : files[f] = Absent

\* C11 as stated: an explicit value wins over the provider bundle, except
\* that an explicit False counts as unset and gives way to the bundle's value.
C11_ExplicitFalseOverridden ==
    Resolved =>
        \A k \in ProviderKeys :
            provider[k] # Absent =>
                LET e == DictGet(explicit, k)
                IN  /\ Truthy(e) => params[k] = e
                    /\ e = False => params[k] = provider[k]

\* C11 as amended: an explicit value that is truthy or is False stays the
\* resolved value whatever the provider bundle holds for that key.
C11_ExplicitPrecedence ==
    Resolved =>
        \A k \in ProviderKeys :
            LET e == DictGet(explicit, k)
            IN  (provider[k] # Absent /\ (Truthy(e) \/ e = False)) => params[k] = e

\* an explicit False and an explicit name, each against another value in
\* the bundle
C11_Witness ==
    /\ Resolved
    /\ explicit["commit_changes"] = False /\ provider["commit_changes"] = True
    /\ params["commit_changes"] = False
    /\ explicit["hostname"] = "h1" /\ provider["hostname"] = None
    /\ params["hostname"] = "h1"

\* C12: a dev_os the registry does not know makes the run fail with the
\* driver-import failure, with no driver instantiated, no open and no file
\* written.
C12_UnknownDriverFails ==
    (/\ Resolved
     /\ params["hostname"] # None /\ params["username"] # None
     /\ params["dev_os"] \notin KnownDrivers \cup {None})
    =>
    /\ ~Invoked("network_driver") /\ ~Invoked("open")
    /\ NoFileWritten
    /\ pc = "done" =>
          /\ result.kind = "failed"
          /\ result.msg = "Failed to import napalm driver: "

\* C13: when opening the session fails the run ends with the connection
\* failure, no file is written and no device call follows, also with
\* archive_file set.
C13_OpenFailureStopsRun ==
    ((Invoked("network_driver") \/ Invoked("open")) /\ device.session = "none") =>
        /\ pc = "done"
        /\ result.kind = "failed"
        /\ result.msg = "cannot connect to device: "
        /\ NoFileWritten
        /\ \A i \in 1..Len(calls) : calls[i] \notin DeviceCalls

\* open() raised in a run that asked for the running-config archive
C13_Witness ==
    /\ Invoked("open") /\ device.session = "none"
    /\ params["archive_file"] = "p_arch"
    /\ result.kind = "failed"

\* the message prefix each guarded step hands to fail_json
StepTag == [open |-> "cannot connect to device: ",
            archive |-> "cannot retrieve running config:",
            load |-> "cannot load config: ",
            diff |-> "cannot diff config: ",
            candidate |-> "cannot retrieve running config:",
            install |-> "cannot install config: ",
            close |-> "cannot close device connection: "]

\* the guarded step a call belongs to
StepOfCall(c) ==
    CASE c \in {"network_driver", "open"} -> "open"
      [] c = "get_config_running" -> "archive"
      [] c \in {"load_replace_candidate", "load_merge_candidate"} -> "load"
      [] c = "compare_config" -> "diff"
      [] c = "get_config_candidate" -> "candidate"
      [] c \in {"discard_config", "commit_config"} -> "install"
      [] c = "close" -> "close"
      [] OTHER -> "none"

LastCall == calls[Len(calls)]

\* the run ended in the failure of an external call: the last call made, or
\* the file write that follows it, raised
ExternalCallFailed ==
    /\ pc = "done" /\ result.kind = "failed"
    /\ calls # <<>>
    /\ \E s \in DOMAIN StepTag : result.msg = StepTag[s]
    /\ result.msg = StepTag["install"] => StepOfCall(LastCall) = "install"

\* C14: the failure of an external call is reported under the tag of the
\* step that failed, and no other step has that tag: the message alone tells
\* which step failed.
C14_TagDeterminesStep ==
    ExternalCallFailed =>
        /\ result.msg = StepTag[StepOfCall(LastCall)]
        /\ \A s \in DOMAIN StepTag :
             StepTag[s] = result.msg => s = StepOfCall(LastCall)

\* C15: a run ends with exactly one result, a success with changed and diff
\* after every step including close, or a failure with a message only;
\* nothing is reported before the end.
C15_OneTerminalResult ==
    /\ pc = "done" => result.kind \in {"success", "failed"}
    /\ pc # "done" => result.kind = "none"
    /\ result.kind = "success" =>
          /\ device.session = "closed"
          /\ result.changed \in {True, False}
          /\ result.diff # Absent
    /\ result.kind = "failed" =>
          /\ result.changed = None
          /\ result.diff = Absent

\* the place of a call in open, get_config(running), load, compare_config,
\* get_config(candidate), discard or commit, close
CallRank(c) ==
    CASE c = "get_network_driver" -> 0
      [] c = "network_driver" -> 1
      [] c = "open" -> 2
      [] c = "get_config_running" -> 3
      [] c \in {"load_replace_candidate", "load_merge_candidate"} -> 4
      [] c = "compare_config" -> 5
      [] c = "get_config_candidate" -> 6
      [] c \in {"discard_config", "commit_config"} -> 7
      [] c = "close" -> 8

\* C16: the device operations come in the order open, get_config(running),
\* one load, compare_config, get_config(candidate), discard or commit,
\* close, each at most once; none comes before open has succeeded or after
\* close, and none of the steps after the load comes without the load.
C16_CallOrder ==
    /\ \A i, j \in 1..Len(calls) : i < j => CallRank(calls[i]) < CallRank(calls[j])
    /\ \A i \in 1..Len(calls) :
         /\ calls[i] \in DeviceCalls =>
               Invoked("open") /\ device.session # "none"
         /\ CallRank(calls[i]) > 4 =>
               Invoked("load_replace_candidate") \/ Invoked("load_merge_candidate")
    /\ device.session = "closed" => LastCall = "close"

\* a run that made every call
C16_Witness ==
    calls = <<"get_network_driver", "network_driver", "open", "get_config_running",
              "load_merge_candidate", "compare_config", "get_config_candidate",
              "discard_config", "close">>

Loads == Count("load_replace_candidate") + Count("load_merge_candidate")

BothSources == Truthy(params["config"]) /\ Truthy(params["config_file"])

NoSource == ~Truthy(params["config"]) /\ ~Truthy(params["config_file"])

C18_EmptyDiffLeavesCandidate ==
    (/\ explicit["commit_changes"] = True /\ ~check_mode
     /\ explicit["get_diffs"] = True /\ diff = "")
    =>
    /\ ~Invoked("commit_config") /\ ~Invoked("discard_config")
    /\ device.candidate = LoadSource(params["config_file"], params["config"])
    /\ device.candidate # None
    /\ device.session = "closed" =>
          /\ pc \in {"exit", "done"}
          /\ pc = "done" => result.kind = "success" /\ result.changed = False

\* the session closed and the run ended in success with the candidate
\* still on the device
C18_Witness ==
    /\ explicit["commit_changes"] = True /\ ~check_mode
    /\ explicit["get_diffs"] = True /\ diff = ""
    /\ pc = "done" /\ result.kind = "success"
    /\ device.session = "closed"
    /\ device.candidate = RunningAtStart

\* C19 as stated: a run whose provider bundle has no commit_comment key ends
\* at the lookup of that key: no driver resolution, no connection attempt,
\* no file written, neither a success nor a failure result.
C19_NoCommentAborts ==
    provider_in["commit_comment"] = Absent =>
        /\ calls = <<>>
        /\ NoFileWritten
        /\ result.kind \notin {"success", "failed"}
        /\ pc = "done" => result = [kind |-> "crashed", msg |-> "KeyError: commit_comment",
                                    changed |-> None, diff |-> Absent]

\* C19 as amended: the same, for the runs in which napalm could be imported
\* (without it the run fails before the lookup, with a failure result).
C19_NoCommentAbortsWithNapalm ==
    (napalm_found /\ provider_in["commit_comment"] = Absent) =>
        /\ calls = <<>>
        /\ NoFileWritten
        /\ device.session = "none"
        /\ result.kind \notin {"success", "failed"}
        /\ pc \in {"start", "resolve", "read", "done"}
        /\ pc = "done" => result = [kind |-> "crashed", msg |-> "KeyError: commit_comment",
                                    changed |-> None, diff |-> Absent]

\* the lookup ended a run whose dev_os no driver serves, before anything
\* looked at dev_os
C19_Witness ==
    /\ napalm_found /\ provider_in["commit_comment"] = Absent
    /\ pc = "done" /\ result.kind = "crashed"
    /\ params["dev_os"] = "bogus"

====
